---- MODULE Spec2Model ----
(***************************************************************************)
(* A model of the Data4SEO API client (data4seo/client.py, models.py).     *)
(*                                                                         *)
(* Two specifications share this module:                                   *)
(*   Spec       the client as a concurrent program: logical calls issued   *)
(*              on one client, the counting semaphore, the HTTP attempts   *)
(*              of _request, the retry loop around _post, the gather of    *)
(*              batch_track_serp;                                          *)
(*   SpecParse  the response parsers as pure functions of a vendor         *)
(*              response, drawn from a bounded set of JSON documents.      *)
(*                                                                         *)
(* JSON values are tagged records; a JSON object (a Python dict) is a      *)
(* function from its present keys to values, so that a missing key, a key  *)
(* holding null and a key holding an empty array are three different       *)
(* inputs, as they are for dict.get.  A Python str is a sequence of        *)
(* one-character (or one-token) strings, so that `a in b` is computed.     *)
(***************************************************************************)
EXTENDS Integers, Sequences, FiniteSets, TLC

VARIABLES
    max_concurrent,  \* the max_concurrent the client was constructed with
    semaphore,       \* free slots of self._semaphore
    call,            \* call[c]: one logical operation issued on the client
    req,             \* req[c][i]: one network unit (a _request or a _post loop)
    query,           \* SpecParse: the parser input (operation, arguments, response)
    answer           \* SpecParse: what the parser returned or raised

vars == <<max_concurrent, semaphore, call, req, query, answer>>

-----------------------------------------------------------------------------
(* Bounds of the model *)

MaxK == 2          \* max_concurrent ranges over 1..MaxK
NumCalls == 2      \* logical calls issued on the client
MaxKw == 2         \* keywords of one batch rank check
MaxTasks == 2      \* tasks of a response
MaxResults == 2    \* results of a response, over all its tasks
MaxItems == 2      \* items of a response, over all its results
MaxUnits == 3      \* network units started on the client, over all its calls

-----------------------------------------------------------------------------
(* JSON values and Python's dict.get, truthiness, iteration *)

JNull == [t |-> "null"]
JArr(s) == [t |-> "arr", v |-> s]
JStr(s) == [t |-> "str", v |-> s]
JInt(n) == [t |-> "int", v |-> n]
\* a float, in tenths: JNum(5) is 0.5
JNum(n) == [t |-> "num", v |-> n]
JBool(b) == [t |-> "bool", v |-> b]
EmptyDict == [k \in {} |-> JNull]

IsDict(v) == "t" \notin DOMAIN v

\* d.get(k, default); d.get(k) is Get(d, k, JNull)
Get(d, k, default) == IF k \in DOMAIN d THEN d[k] ELSE default

\* bool(v) for the values a response holds
Truthy(v) ==
    IF IsDict(v) THEN DOMAIN v # {}
    ELSE CASE v.t = "null" -> FALSE
           [] v.t = "arr" -> v.v # <<>>
           [] v.t = "str" -> v.v # <<>>
           [] v.t = "int" -> v.v # 0
           [] v.t = "num" -> v.v # 0
           [] v.t = "bool" -> v.v

\* `a in b` for two str
IsSubstring(a, b) ==
    \E i \in 0..(Len(b) - Len(a)) : SubSeq(b, i + 1, i + Len(a)) = a

(* The state of a function body that loops: still running with its locals, *)
(* returned a value, or raised.                                            *)
Run(locals) == [st |-> "run", val |-> locals]
Return(v) == [st |-> "return", val |-> v]
Raise(e) == [st |-> "raise", val |-> e]
NoOutcome == [st |-> "none"]

\* an exception raised while the response is read
Exc(type) == [type |-> type]

\* for x in s: acc = Body(acc, x), left at the first return or raise
RECURSIVE ForEach(_, _, _)
ForEach(Body(_, _), s, acc) ==
    IF s = <<>> \/ acc.st # "run" THEN acc
    ELSE ForEach(Body, Tail(s), Body(acc, Head(s)))

\* for x in v, v any value: None is not iterable
ForEachIn(Body(_, _), v, acc) ==
    IF acc.st # "run" THEN acc
    ELSE IF IsDict(v) \/ v.t # "arr" THEN Raise(Exc("TypeError"))
    ELSE ForEach(Body, v.v, acc)

-----------------------------------------------------------------------------
(* models.py: the pydantic models, with the validation their fields state *)

IsStr(v) == ~IsDict(v) /\ v.t = "str"
IsInt(v) == ~IsDict(v) /\ v.t = "int"
IsFloat(v) == ~IsDict(v) /\ v.t \in {"int", "num"}
IsBool(v) == ~IsDict(v) /\ v.t = "bool"
IsNone(v) == ~IsDict(v) /\ v.t = "null"

\* the value of a float field in tenths
Tenths(v) == IF v.t = "int" THEN 10 * v.v ELSE v.v

KeywordData(keyword, search_volume, competition, cpc, keyword_difficulty, search_intent) ==
    IF /\ IsStr(keyword)
       /\ IsInt(search_volume)
       /\ IsFloat(competition) /\ Tenths(competition) >= 0 /\ Tenths(competition) <= 10
       /\ (IsNone(cpc) \/ IsFloat(cpc))
       /\ \/ IsNone(keyword_difficulty)
          \/ IsInt(keyword_difficulty) /\ keyword_difficulty.v >= 0
                                       /\ keyword_difficulty.v <= 100
       /\ (IsNone(search_intent) \/ IsStr(search_intent))
    THEN Return([keyword |-> keyword, search_volume |-> search_volume,
                 competition |-> competition, cpc |-> cpc,
                 keyword_difficulty |-> keyword_difficulty,
                 search_intent |-> search_intent])
    ELSE Raise(Exc("ValidationError"))

SERPResult(keyword, position, url, title, snippet) ==
    IF /\ IsStr(keyword)
       /\ (IsNone(position) \/ IsInt(position))
       /\ IsStr(url)
       /\ IsStr(title)
       /\ (IsNone(snippet) \/ IsStr(snippet))
    THEN Return([keyword |-> keyword, position |-> position, url |-> url,
                 title |-> title, snippet |-> snippet])
    ELSE Raise(Exc("ValidationError"))

is_ranking(r) == ~IsNone(r.position) /\ r.position.v <= 100

is_top_10(r) == ~IsNone(r.position) /\ r.position.v <= 10

BacklinkData(source_url, target_url, anchor_text, domain_rank, is_dofollow, first_seen) ==
    IF /\ IsStr(source_url)
       /\ IsStr(target_url)
       /\ (IsNone(anchor_text) \/ IsStr(anchor_text))
       /\ (IsNone(domain_rank) \/ IsInt(domain_rank))
       /\ IsBool(is_dofollow)
       /\ (IsNone(first_seen) \/ IsStr(first_seen))
    THEN Return([source_url |-> source_url, target_url |-> target_url,
                 anchor_text |-> anchor_text, domain_rank |-> domain_rank,
                 is_dofollow |-> is_dofollow, first_seen |-> first_seen])
    ELSE Raise(Exc("ValidationError"))

AILLMMention(query_, llm_model, mentioned_domain, mentioned_url, mention_type, position) ==
    IF /\ IsStr(query_)
       /\ IsStr(llm_model)
       /\ IsStr(mentioned_domain)
       /\ (IsNone(mentioned_url) \/ IsStr(mentioned_url))
       /\ IsStr(mention_type)
       /\ (IsNone(position) \/ IsInt(position))
    THEN Return([query |-> query_, llm_model |-> llm_model,
                 mentioned_domain |-> mentioned_domain,
                 mentioned_url |-> mentioned_url, mention_type |-> mention_type,
                 position |-> position])
    ELSE Raise(Exc("ValidationError"))

\* results.append(Model(...)): the constructor may raise
AppendModel(acc, made) ==
    IF made.st = "raise" THEN made ELSE Run(Append(acc.val, made.val))

-----------------------------------------------------------------------------
(* client.py: what each operation does with the response of its network    *)
(* call.  Each operator is the method body after `response = await ...`.   *)

get_keyword_data(response) ==
    LET ItemBody(acc, item) ==
            AppendModel(acc, KeywordData(Get(item, "keyword", JStr(<<>>)),
                                         Get(item, "search_volume", JInt(0)),
                                         Get(item, "competition", JInt(0)),
                                         Get(item, "cpc", JNull),
                                         Get(item, "keyword_difficulty", JNull),
                                         JNull))
        TaskBody(acc, task) ==
            IF Truthy(Get(task, "result", JNull))
            THEN ForEachIn(ItemBody, task["result"], acc)
            ELSE acc
        loop == IF Truthy(Get(response, "tasks", JNull))
                THEN ForEachIn(TaskBody, response["tasks"], Run(<<>>))
                ELSE Run(<<>>)
    IN  IF loop.st = "run" THEN Return(loop.val) ELSE loop

get_keyword_suggestions(response) ==
    LET KwBody(acc, kw) ==
            LET keyword_info == Get(kw, "keyword_info", EmptyDict)
                keyword_properties == Get(kw, "keyword_properties", EmptyDict)
                search_intent_info == Get(kw, "search_intent_info", EmptyDict)
            IN  IF ~IsDict(keyword_info) \/ ~IsDict(keyword_properties)
                   \/ ~IsDict(search_intent_info)
                THEN Raise(Exc("AttributeError"))
                ELSE AppendModel(acc,
                        KeywordData(Get(kw, "keyword", JStr(<<>>)),
                                    Get(keyword_info, "search_volume", JInt(0)),
                                    Get(keyword_info, "competition", JInt(0)),
                                    Get(keyword_info, "cpc", JNull),
                                    Get(keyword_properties, "keyword_difficulty", JNull),
                                    Get(search_intent_info, "main_intent", JNull)))
        ItemBody(acc, item) ==
            IF Truthy(Get(item, "items", JNull))
            THEN ForEachIn(KwBody, item["items"], acc)
            ELSE acc
        TaskBody(acc, task) ==
            IF Truthy(Get(task, "result", JNull))
            THEN ForEachIn(ItemBody, task["result"], acc)
            ELSE acc
        loop == IF Truthy(Get(response, "tasks", JNull))
                THEN ForEachIn(TaskBody, response["tasks"], Run(<<>>))
                ELSE Run(<<>>)
    IN  IF loop.st = "run" THEN Return(loop.val) ELSE loop

\* the timestamp (datetime.utcnow()) of the record is left out: time is not modelled
track_serp(keyword, target_domain, response) ==
    LET ItemBody(acc, item) ==
            IF Get(item, "type", JNull) = JStr(<<"organic">>)
            THEN LET domain == Get(item, "domain", JStr(<<>>))
                 IN  IF ~IsStr(domain) THEN Raise(Exc("TypeError"))
                     ELSE IF IsSubstring(target_domain, domain.v)
                     THEN SERPResult(JStr(keyword),
                                     Get(item, "rank_group", JNull),
                                     Get(item, "url", JStr(<<>>)),
                                     Get(item, "title", JStr(<<>>)),
                                     Get(item, "description", JNull))
                     ELSE acc
            ELSE acc
        ResultBody(acc, result) ==
            ForEachIn(ItemBody, Get(result, "items", JArr(<<>>)), acc)
        TaskBody(acc, task) ==
            IF Truthy(Get(task, "result", JNull))
            THEN ForEachIn(ResultBody, task["result"], acc)
            ELSE acc
        loop == IF Truthy(Get(response, "tasks", JNull))
                THEN ForEachIn(TaskBody, response["tasks"], Run(<<>>))
                ELSE Run(<<>>)
    IN  IF loop.st = "run"
        THEN SERPResult(JStr(keyword), JNull, JStr(<<>>), JStr(<<>>), JNull)
        ELSE loop

get_llm_mentions(domain, response) ==
    LET ItemBody(acc, item) ==
            AppendModel(acc, AILLMMention(Get(item, "query", JStr(<<>>)),
                                          Get(item, "llm", JStr(<<>>)),
                                          JStr(domain),
                                          Get(item, "url", JNull),
                                          Get(item, "mention_type", JStr(<<"unknown">>)),
                                          Get(item, "position", JNull)))
        ResultBody(acc, result) ==
            ForEachIn(ItemBody, Get(result, "items", JArr(<<>>)), acc)
        TaskBody(acc, task) ==
            IF Truthy(Get(task, "result", JNull))
            THEN ForEachIn(ResultBody, task["result"], acc)
            ELSE acc
        loop == IF Truthy(Get(response, "tasks", JNull))
                THEN ForEachIn(TaskBody, response["tasks"], Run(<<>>))
                ELSE Run(<<>>)
    IN  IF loop.st = "run" THEN Return(loop.val) ELSE loop

check_llm_response(response) == Return(response)

get_backlinks(response) ==
    LET ItemBody(acc, item) ==
            AppendModel(acc, BacklinkData(Get(item, "url_from", JStr(<<>>)),
                                          Get(item, "url_to", JStr(<<>>)),
                                          Get(item, "anchor", JNull),
                                          Get(item, "domain_from_rank", JNull),
                                          Get(item, "dofollow", JBool(TRUE)),
                                          Get(item, "first_seen", JNull)))
        ResultBody(acc, result) ==
            ForEachIn(ItemBody, Get(result, "items", JArr(<<>>)), acc)
        TaskBody(acc, task) ==
            IF Truthy(Get(task, "result", JNull))
            THEN ForEachIn(ResultBody, task["result"], acc)
            ELSE acc
        loop == IF Truthy(Get(response, "tasks", JNull))
                THEN ForEachIn(TaskBody, response["tasks"], Run(<<>>))
                ELSE Run(<<>>)
    IN  IF loop.st = "run" THEN Return(loop.val) ELSE loop

\* an account balance that looks at the first task only
get_account_balance_first_task(response) ==
    LET tasks == Get(response, "tasks", JNull)
    IN  IF Truthy(tasks) /\ Truthy(Get(tasks.v[1], "result", JNull))
        THEN Return(tasks.v[1]["result"].v[1])
        ELSE Return(EmptyDict)

get_account_balance(response) ==
    LET TaskBody(acc, task) ==
            IF Truthy(Get(task, "result", JNull))
            THEN IF ~IsDict(task["result"]) /\ task["result"].t = "arr"
                 THEN Return(task["result"].v[1])
                 ELSE Raise(Exc("TypeError"))
            ELSE acc
        loop == IF Truthy(Get(response, "tasks", JNull))
                THEN ForEachIn(TaskBody, response["tasks"], Run(<<>>))
                ELSE Run(<<>>)
    IN  IF loop.st = "run" THEN Return(EmptyDict) ELSE loop

-----------------------------------------------------------------------------
(* The vendor: the JSON documents a successful HTTP call may carry.  Every *)
(* level (tasks, a task's result, a result's items) is missing, null,      *)
(* empty or populated; items are drawn from a pool per operation.          *)

Ops == {"get_keyword_data", "get_keyword_suggestions", "track_serp",
        "batch_track_serp", "get_llm_mentions", "check_llm_response",
        "get_backlinks", "get_account_balance"}

\* the operations whose parser reads result["items"]
ThreeLevelOps == {"get_keyword_suggestions", "track_serp", "get_llm_mentions",
                  "check_llm_response", "get_backlinks"}

S(w) == JStr(<<w>>)
DomTarget == <<"a", "b">>          \* a target domain, "ab"
DomShort == <<"b">>                \* another target, "b"
DomWww == <<"x", "a", "b">>        \* "xab" contains "ab"
DomOther == <<"b", "a">>           \* "ba" contains "b" but not "ab"

SerpItems ==
    { [type |-> S("organic"), domain |-> JStr(DomWww), rank_group |-> JInt(3),
       url |-> S("u1"), title |-> S("t1")],
      [type |-> S("organic"), domain |-> JStr(DomTarget), rank_group |-> JInt(12),
       url |-> S("u2"), title |-> S("t2"), description |-> S("d2")],
      [type |-> S("paid"), domain |-> JStr(DomTarget), rank_group |-> JInt(1),
       url |-> S("u3"), title |-> S("t3")],
      [type |-> S("organic"), domain |-> JStr(DomOther), rank_group |-> JInt(2),
       url |-> S("u4"), title |-> S("t4")] }

KeywordEntries ==
    { [keyword |-> S("k1"), search_volume |-> JInt(100), competition |-> JNum(5),
       cpc |-> JNum(12), keyword_difficulty |-> JInt(45)],
      [keyword |-> S("k2"), search_volume |-> JInt(-5), competition |-> JInt(1)],
      [keyword |-> S("k1"), search_volume |-> JInt(10), competition |-> JNum(15)],
      EmptyDict }

SuggestionItems ==
    { [keyword |-> S("k1"),
       keyword_info |-> [search_volume |-> JInt(100), competition |-> JNum(5)],
       search_intent_info |-> [main_intent |-> S("informational")]],
      [keyword |-> S("k2"),
       keyword_info |-> [search_volume |-> JInt(-5), competition |-> JNum(15)]],
      [keyword |-> S("k2")] }

MentionItems ==
    { [query |-> S("q1"), llm |-> S("gpt"), url |-> S("u1"),
       mention_type |-> S("direct_citation"), position |-> JInt(1)],
      EmptyDict }

BacklinkItems ==
    { [url_from |-> S("u1"), url_to |-> S("u2"), anchor |-> S("a1"),
       dofollow |-> JBool(FALSE)],
      EmptyDict }

BalanceEntries ==
    { [login |-> S("me"), money |-> [balance |-> JInt(10)]],
      [login |-> S("you")] }

ItemPool(op) ==
    CASE op = "get_keyword_suggestions" -> SuggestionItems
      [] op \in {"track_serp", "batch_track_serp"} -> SerpItems
      [] op \in {"get_llm_mentions", "check_llm_response"} -> MentionItems
      [] op = "get_backlinks" -> BacklinkItems
      [] OTHER -> {}

SeqsUpTo(pool, n) == UNION {[1..k -> pool] : k \in 0..n}

NItems(result) ==
    IF "items" \in DOMAIN result /\ result["items"].t = "arr"
    THEN Len(result["items"].v) ELSE 0

\* the objects of a "result" array holding at most i items
ResultDicts(op, i) ==
    CASE op = "get_keyword_data" -> KeywordEntries
      [] op = "get_account_balance" -> BalanceEntries
      [] OTHER -> {EmptyDict, [items |-> JNull]}
                  \cup {[items |-> JArr(s)] : s \in SeqsUpTo(ItemPool(op), i)}

\* the "result" arrays of at most r objects holding at most i items in all
RECURSIVE ResultSeqs(_, _, _)
ResultSeqs(op, r, i) ==
    {<<>>} \cup
    (IF r = 0 THEN {}
     ELSE UNION {{<<d>> \o rest : rest \in ResultSeqs(op, r - 1, i - NItems(d))}
                 : d \in ResultDicts(op, i)})

NResults(task) ==
    IF "result" \in DOMAIN task /\ task["result"].t = "arr"
    THEN Len(task["result"].v) ELSE 0

RECURSIVE SumItems(_)
SumItems(results) ==
    IF results = <<>> THEN 0 ELSE NItems(Head(results)) + SumItems(Tail(results))

NTaskItems(task) == IF NResults(task) = 0 THEN 0 ELSE SumItems(task["result"].v)

TaskDicts(op, r, i) ==
    {EmptyDict, [result |-> JNull]}
    \cup {[result |-> JArr(rs)] : rs \in ResultSeqs(op, r, i)}

RECURSIVE TaskSeqs(_, _, _, _)
TaskSeqs(op, t, r, i) ==
    {<<>>} \cup
    (IF t = 0 THEN {}
     ELSE UNION {{<<d>> \o rest
                    : rest \in TaskSeqs(op, t - 1, r - NResults(d), i - NTaskItems(d))}
                 : d \in TaskDicts(op, r, i)})

Responses(op) ==
    {EmptyDict, [tasks |-> JNull]}
    \cup {[tasks |-> JArr(ts)] : ts \in TaskSeqs(op, MaxTasks, MaxResults, MaxItems)}

-----------------------------------------------------------------------------
(* The parsers as pure functions (SpecParse): one query, one answer *)

Dispatch(op, keyword, target_domain, response) ==
    CASE op = "get_keyword_data" -> get_keyword_data(response)
      [] op = "get_keyword_suggestions" -> get_keyword_suggestions(response)
      [] op = "track_serp" -> track_serp(keyword, target_domain, response)
      [] op = "get_llm_mentions" -> get_llm_mentions(target_domain, response)
      [] op = "check_llm_response" -> check_llm_response(response)
      [] op = "get_backlinks" -> get_backlinks(response)
      [] op = "get_account_balance" -> get_account_balance(response)

Keywords == {<<"k1">>, <<"k2">>}
Targets == {DomTarget, DomShort}
ParsedOps == Ops \ {"batch_track_serp"}

NoQuery == [op |-> "none"]

\* the inputs of a parser: its arguments and a response of the vendor
Queries(op) ==
    {[op |-> op, keyword |-> kw, target_domain |-> td, response |-> r]
       : r \in Responses(op),
         kw \in (IF op = "track_serp" THEN Keywords ELSE {<<"k1">>}),
         td \in (IF op = "track_serp" THEN Targets ELSE {DomTarget})}

InitParse ==
    /\ max_concurrent = 1
    /\ semaphore = 1
    /\ call = <<>>
    /\ req = <<>>
    /\ \E op \in ParsedOps : query \in Queries(op)
    /\ answer = NoOutcome

Parse ==
    /\ query # NoQuery
    /\ answer = NoOutcome
    /\ answer' = Dispatch(query.op, query.keyword, query.target_domain, query.response)
    /\ UNCHANGED <<max_concurrent, semaphore, call, req, query>>

NextParse == Parse

SpecParse == InitParse /\ [][NextParse]_vars

-----------------------------------------------------------------------------
(* The client as a concurrent program (Spec) *)

MaxAttempts == 3   \* stop_after_attempt(3)

Calls == 1..NumCalls
Units == 1..MaxKw

\* how an HTTP attempt fails inside _request: the transport, raise_for_status
\* on a 4xx or a 5xx status, response.json()
ErrorKinds == {"TransportError", "HTTPStatusError4xx", "HTTPStatusError5xx",
               "JSONDecodeError"}

\* the exception of the attempt_number-th attempt
HTTPError(kind, attempt_number) == [type |-> kind, attempt |-> attempt_number]

\* tenacity's RetryError, raised when the attempts are used up (reraise is not set)
RetryError(last_attempt) == [type |-> "RetryError", last_attempt |-> last_attempt]

\* the responses the vendor gives in Spec: for a rank check a document whose
\* only result has "items": null or one with a matching organic item; for the
\* other operations a document with no tasks
Wrap(d) == [tasks |-> JArr(<<[result |-> JArr(<<d>>)]>>)]
SerpHit == [type |-> S("organic"), domain |-> JStr(DomWww), rank_group |-> JInt(3),
            url |-> S("u1"), title |-> S("t1")]
LiveResponses(op) ==
    IF op = "track_serp"
    THEN {Wrap([items |-> JNull]), Wrap([items |-> JArr(<<SerpHit>>)])}
    ELSE {EmptyDict}

IdleCall == [op |-> "none", pc |-> "idle", keywords |-> <<>>, outcome |-> NoOutcome,
             order |-> <<>>]
IdleUnit == [pc |-> "none", attempt_number |-> 0, outcome |-> NoOutcome]

\* a unit whose coroutine ended: the retry state is gone with it
DoneUnit(u, outcome) == [pc |-> "done", attempt_number |-> 0, outcome |-> outcome]

\* the operation a network unit of a call runs
UnitOp(op) == IF op = "batch_track_serp" THEN "track_serp" ELSE op

\* the network units a call starts
NUnits(op, keywords) == IF op = "batch_track_serp" THEN Len(keywords) ELSE 1

\* asyncio.Semaphore(max_concurrent)
Semaphore(value) == value

\* an acquire that lets one caller too many through
CanAcquireOffByOne(value) == value >= 0

\* Semaphore.acquire returns only when a slot is free, and takes it
CanAcquire(value) == value > 0

\* a slot given back only when the body returned
SlotsAfterExitOnSuccess(value, failed) == IF failed THEN value ELSE value + 1

\* `async with self._semaphore` left: the slot is given back however the body ended
SlotsAfterExit(value, failed) == value + 1

\* a retry loop that gives up at once on a 4xx status
PostAfterFailureNo4xx(attempt_number, error) ==
    IF attempt_number >= MaxAttempts \/ error.type = "HTTPStatusError4xx"
    THEN Raise(RetryError(error)) ELSE Run("backoff")

\* the retry loop around _post after a failed attempt: stop_after_attempt(3),
\* every exception retried
PostAfterFailure(attempt_number, error) ==
    IF attempt_number >= MaxAttempts THEN Raise(RetryError(error)) ELSE Run("backoff")

\* every operation, account balance included, going through _post
UsesPostAlways(op) == TRUE

\* get_account_balance calls _request("GET") itself; the rest go through _post
UsesPost(op) == op # "get_account_balance"

\* isinstance(r, SERPResult) for an entry of gather's result list
IsSERPResult(r) == {"keyword", "position", "url", "title"} \subseteq DOMAIN r

\* gather collecting the entries as the tasks finish
GatherAsCompleted(c) ==
    [j \in 1..Len(call[c].order) |-> req[c][call[c].order[j]].outcome.val]

\* asyncio.gather(*tasks, return_exceptions=True): one entry per task, in the
\* order of the tasks, a raised exception standing as the entry
Gather(c) == [i \in 1..Len(call[c].keywords) |-> req[c][i].outcome.val]

\* a batch that keeps every entry gather gives
BatchResultUnfiltered(c) == Gather(c)

\* batch_track_serp's return value, all tasks done
BatchResult(c) == SelectSeq(Gather(c), IsSERPResult)

RECURSIVE SumUnits(_)
SumUnits(cs) ==
    IF cs = {} THEN 0
    ELSE LET c == CHOOSE x \in cs : TRUE
         IN  NUnits(call[c].op, call[c].keywords) + SumUnits(cs \ {c})

\* the network units the calls issued so far have started
UnitsStarted == SumUnits({c \in Calls : call[c].pc # "idle"})

Init ==
    /\ max_concurrent \in 1..MaxK
    /\ semaphore = Semaphore(max_concurrent)
    /\ call = [c \in Calls |-> IdleCall]
    /\ req = [c \in Calls |-> [i \in Units |-> IdleUnit]]
    /\ query = NoQuery
    /\ answer = NoOutcome

\* a caller starts an operation on the client
Invoke(c, op, keywords) ==
    /\ call[c].pc = "idle"
    /\ UnitsStarted + NUnits(op, keywords) <= MaxUnits
    /\ call' = [call EXCEPT ![c] = [op |-> op, pc |-> "running", keywords |-> keywords,
                                    outcome |-> NoOutcome, order |-> <<>>]]
    /\ req' = [req EXCEPT ![c] =
                 [i \in Units |-> IF i <= NUnits(op, keywords)
                                  THEN [pc |-> "acquire", attempt_number |-> 1,
                                        outcome |-> NoOutcome]
                                  ELSE IdleUnit]]
    /\ UNCHANGED <<max_concurrent, semaphore, query, answer>>

\* _request enters `async with self._semaphore`
Acquire(c, i) ==
    /\ req[c][i].pc = "acquire"
    /\ CanAcquire(semaphore)
    /\ semaphore' = semaphore - 1
    /\ req' = [req EXCEPT ![c][i].pc = "inflight"]
    /\ UNCHANGED <<max_concurrent, call, query, answer>>

\* what becomes of a call when its unit i ends with `outcome`
CallAfter(c, i, outcome) ==
    IF call[c].op = "batch_track_serp"
    THEN [call[c] EXCEPT !.order = Append(@, i)]
    ELSE [call[c] EXCEPT !.pc = "done", !.outcome = outcome]

\* the HTTP call of unit i fails; _request is left by the exception
Fail(c, i, kind) ==
    LET u == req[c][i]
        error == HTTPError(kind, u.attempt_number)
        next == IF UsesPost(call[c].op) THEN PostAfterFailure(u.attempt_number, error)
                ELSE Raise(error)
    IN  /\ u.pc = "inflight"
        /\ semaphore' = SlotsAfterExit(semaphore, TRUE)
        /\ IF next.st = "run"
           THEN /\ req' = [req EXCEPT ![c][i].pc = "backoff"]
                /\ UNCHANGED call
           ELSE /\ req' = [req EXCEPT ![c][i] = DoneUnit(u, next)]
                /\ call' = [call EXCEPT ![c] = CallAfter(c, i, next)]
        /\ UNCHANGED <<max_concurrent, query, answer>>

\* the HTTP call of unit i returns a 2xx JSON response, which the operation reads
Succeed(c, i, response) ==
    LET u == req[c][i]
        op == UnitOp(call[c].op)
        keyword == IF op = "track_serp" THEN call[c].keywords[i] ELSE <<>>
        outcome == Dispatch(op, keyword, DomTarget, response)
    IN  /\ u.pc = "inflight"
        /\ semaphore' = SlotsAfterExit(semaphore, FALSE)
        /\ req' = [req EXCEPT ![c][i] = DoneUnit(u, outcome)]
        /\ call' = [call EXCEPT ![c] = CallAfter(c, i, outcome)]
        /\ UNCHANGED <<max_concurrent, query, answer>>

\* the wait between two attempts of _post is over: the next attempt starts
Retry(c, i) ==
    /\ req[c][i].pc = "backoff"
    /\ req' = [req EXCEPT ![c][i].pc = "acquire",
                          ![c][i].attempt_number = @ + 1]
    /\ UNCHANGED <<max_concurrent, semaphore, call, query, answer>>

\* batch_track_serp resumes after gather and returns
BatchReturn(c) ==
    LET n == Len(call[c].keywords)
    IN  /\ call[c].pc = "running"
        /\ call[c].op = "batch_track_serp"
        /\ \A i \in 1..n : req[c][i].pc = "done"
        /\ call' = [call EXCEPT ![c].pc = "done",
                                ![c].outcome = Return(BatchResult(c))]
        /\ UNCHANGED <<max_concurrent, semaphore, req, query, answer>>

KeywordArgs(op) ==
    CASE op = "batch_track_serp" -> SeqsUpTo(Keywords, MaxKw)
      [] op = "track_serp" -> [1..1 -> Keywords]
      [] OTHER -> {<<>>}

Next ==
    \/ \E c \in Calls, op \in Ops : \E keywords \in KeywordArgs(op) :
          Invoke(c, op, keywords)
    \/ \E c \in Calls, i \in Units : Acquire(c, i)
    \/ \E c \in Calls, i \in Units, kind \in ErrorKinds : Fail(c, i, kind)
    \/ \E c \in Calls, i \in Units :
          \E response \in LiveResponses(UnitOp(call[c].op)) : Succeed(c, i, response)
    \/ \E c \in Calls, i \in Units : Retry(c, i)
    \/ \E c \in Calls : BatchReturn(c)

Spec == Init /\ [][Next]_vars

\* the HTTP attempt of unit i comes to an end, one way or the other
Complete(c, i) ==
    \/ \E kind \in ErrorKinds : Fail(c, i, kind)
    \/ \E response \in LiveResponses(UnitOp(call[c].op)) : Succeed(c, i, response)

\* the event loop's scheduling: every HTTP attempt ends (the httpx timeout), a
\* backoff wait ends (wait_exponential is at most 10 s), a waiter of the
\* semaphore that can have a slot from some point on gets one, and gather
\* resumes the batch once its tasks are done
Fairness ==
    /\ \A c \in Calls, i \in Units :
          /\ WF_vars(Acquire(c, i))
          /\ WF_vars(Complete(c, i))
          /\ WF_vars(Retry(c, i))
    /\ \A c \in Calls : WF_vars(BatchReturn(c))

\* the operations competing for the slots where completion is checked: the
\* batch, a retrying POST of another kind and the GET
FairOps == {"batch_track_serp", "get_keyword_data", "get_account_balance"}

NextFair ==
    \/ \E c \in Calls, op \in FairOps : \E keywords \in KeywordArgs(op) :
          Invoke(c, op, keywords)
    \/ \E c \in Calls, i \in Units : Acquire(c, i)
    \/ \E c \in Calls, i \in Units : Complete(c, i)
    \/ \E c \in Calls, i \in Units : Retry(c, i)
    \/ \E c \in Calls : BatchReturn(c)

SpecFair == Init /\ [][NextFair]_vars /\ Fairness

-----------------------------------------------------------------------------
(* Properties of the concurrent client (Spec) *)

AllUnits == Calls \X Units
InFlight == {u \in AllUnits : req[u[1]][u[2]].pc = "inflight"}
Waiting == {u \in AllUnits : req[u[1]][u[2]].pc = "acquire"}
Started == {c \in Calls : call[c].pc # "idle"}
Quiescent == Started # {} /\ \A c \in Calls : call[c].pc # "running"

\* C1: whatever operations are running and however they interleave, at most
\* max_concurrent HTTP requests are in flight at the same time.
C1_InFlightBounded == Cardinality(InFlight) <= max_concurrent

\* every slot is taken while a batch unit and a unit of another operation wait
C1_Witness ==
    /\ max_concurrent = 2
    /\ Cardinality(InFlight) = max_concurrent
    /\ \E u \in Waiting : TRUE
    /\ \E u, w \in InFlight : u[1] # w[1]

\* C2: a slot is held exactly while an HTTP attempt is in flight, so once every
\* issued operation has finished, with a result or an error of any kind, all
\* max_concurrent slots are free again.
C2_SlotsReleased ==
    /\ semaphore + Cardinality(InFlight) = max_concurrent
    /\ Quiescent => semaphore = max_concurrent

\* all calls are over: one gave up after retries, one failed its single GET,
\* and the slots are back
C2_Witness ==
    /\ \A c \in Calls : call[c].pc = "done"
    /\ \E c \in Calls : /\ call[c].outcome.st = "raise"
                        /\ call[c].outcome.val.type = "RetryError"
                        /\ call[c].outcome.val.last_attempt.type = "JSONDecodeError"
    /\ \E c \in Calls : /\ call[c].outcome.st = "raise"
                        /\ call[c].outcome.val.type = "HTTPStatusError5xx"
    /\ semaphore = max_concurrent

\* what a unit can end with once its HTTP call succeeded
SuccessOutcomes(c, i) ==
    LET op == UnitOp(call[c].op)
        keyword == IF op = "track_serp" THEN call[c].keywords[i] ELSE <<>>
    IN  {Dispatch(op, keyword, DomTarget, r) : r \in LiveResponses(op)}

C3_AtMostThree == \A u \in AllUnits : req[u[1]][u[2]].attempt_number <= MaxAttempts

C3_Step ==
    \A u \in AllUnits :
        LET c == u[1]
            i == u[2]
            a == req[c][i]
            b == req'[c][i]
        IN  (UsesPost(call[c].op) /\ a # b) =>
              /\ a.pc = "acquire" => b.pc = "inflight" /\ b.attempt_number = a.attempt_number
              /\ a.pc = "inflight" =>
                   \/ /\ a.attempt_number < MaxAttempts
                      /\ b.pc = "backoff" /\ b.attempt_number = a.attempt_number
                   \/ /\ a.attempt_number = MaxAttempts
                      /\ b.pc = "done" /\ b.outcome.st = "raise"
                      /\ b.outcome \notin SuccessOutcomes(c, i)
                   \/ /\ b.pc = "done"
                      /\ b.outcome \in SuccessOutcomes(c, i)
              /\ a.pc = "backoff" =>
                   b.pc = "acquire" /\ b.attempt_number = a.attempt_number + 1
              /\ a.pc = "done" => FALSE

\* C3: a retrying POST makes at most 3 HTTP attempts; a failed attempt of any
\* kind that is not the 3rd is followed by a wait and another attempt, never by
\* an error; an attempt that succeeds, the 3rd included, ends the call with
\* what the operation makes of that response.
C3_RetryUpToThree == []C3_AtMostThree /\ [][C3_Step]_vars

\* two attempts of a rank check failed and its 3rd is in flight
C3_Witness ==
    \E c \in Calls :
        /\ call[c].op = "track_serp"
        /\ req[c][1].pc = "inflight"
        /\ req[c][1].attempt_number = MaxAttempts

\* C4: when all 3 attempts of a retrying POST fail, the caller gets the error
\* of the 3rd attempt itself.
C4_LastErrorRaised ==
    \A c \in Calls :
        (/\ call[c].pc = "done"
         /\ UsesPost(call[c].op)
         /\ call[c].op # "batch_track_serp"
         /\ call[c].outcome.st = "raise"
         /\ call[c].outcome \notin SuccessOutcomes(c, 1))
        => call[c].outcome.val \in {HTTPError(kind, MaxAttempts) : kind \in ErrorKinds}

Batches == {c \in Calls : call[c].op = "batch_track_serp" /\ call[c].pc = "done"}
FailedChecks(c) ==
    {i \in 1..Len(call[c].keywords) : req[c][i].outcome.st = "raise"}
FailedKeywords(c) == {call[c].keywords[i] : i \in FailedChecks(c)}
Distinct(keywords) ==
    \A i, j \in 1..Len(keywords) : i # j => keywords[i] # keywords[j]
Occurrences(out, k) == Cardinality({j \in 1..Len(out) : out[j].keyword = JStr(k)})
Successes(c, k) ==
    Cardinality({i \in 1..Len(call[c].keywords) \ FailedChecks(c)
                   : call[c].keywords[i] = k})

\* C5 as claimed: a batch over N keywords of which M fail returns N-M records,
\* none carrying the keyword of a failed rank check.
C5_NoFailedKeyword ==
    \A c \in Batches :
        LET out == call[c].outcome.val
        IN  (\A i \in FailedChecks(c) : req[c][i].outcome.val.type = "RetryError") =>
            /\ call[c].outcome.st = "return"
            /\ Len(out) = Len(call[c].keywords) - Cardinality(FailedChecks(c))
            /\ \A j \in 1..Len(out) : out[j].keyword.v \notin FailedKeywords(c)

\* C5: a batch over N keywords of which M fail returns, without raising, N-M
\* rank records and nothing else; each keyword is carried by as many records as
\* rank checks for it succeeded, so with pairwise distinct keywords no record
\* carries the keyword of a failed check.
C5_OnlySuccessesReturned ==
    \A c \in Batches :
        LET out == call[c].outcome.val
        IN  /\ call[c].outcome.st = "return"
            /\ Len(out) = Len(call[c].keywords) - Cardinality(FailedChecks(c))
            /\ \A j \in 1..Len(out) : IsSERPResult(out[j])
            /\ \A k \in Keywords : Occurrences(out, k) = Successes(c, k)
            /\ Distinct(call[c].keywords) =>
                 \A j \in 1..Len(out) : out[j].keyword.v \notin FailedKeywords(c)

\* a batch over two distinct keywords, one of which gave up after its retries
C5_Witness ==
    \E c \in Batches :
        /\ Len(call[c].keywords) = 2
        /\ Distinct(call[c].keywords)
        /\ \E i \in FailedChecks(c) : req[c][i].outcome.val.type = "RetryError"
        /\ Len(call[c].outcome.val) = 1

\* the rank records of the units of c that returned, from unit i on, in the
\* order of the keywords
RECURSIVE ReturnedFrom(_, _)
ReturnedFrom(c, i) ==
    IF i > Len(call[c].keywords) THEN <<>>
    ELSE (IF req[c][i].outcome.st = "return" THEN <<req[c][i].outcome.val>> ELSE <<>>)
         \o ReturnedFrom(c, i + 1)

\* the same records in the order in which the units finished, from the j-th on
RECURSIVE CompletedFrom(_, _)
CompletedFrom(c, j) ==
    IF j > Len(call[c].order) THEN <<>>
    ELSE (IF req[c][call[c].order[j]].outcome.st = "return"
          THEN <<req[c][call[c].order[j]].outcome.val>> ELSE <<>>)
         \o CompletedFrom(c, j + 1)

\* C6 as claimed: the records of a batch come in task-completion order.
C6_CompletionOrder ==
    \A c \in Batches : call[c].outcome.val = CompletedFrom(c, 1)

\* C6: the records of a batch come in the order of the input keywords, the
\* failed ones left out, whatever the order in which the rank checks finished.
C6_InputOrder ==
    \A c \in Batches : call[c].outcome.val = ReturnedFrom(c, 1)

\* the second rank check finished first, both returned, the keywords differ
C6_Witness ==
    \E c \in Batches :
        /\ call[c].order = <<2, 1>>
        /\ FailedChecks(c) = {}
        /\ Distinct(call[c].keywords)
        /\ Len(call[c].outcome.val) = 2

-----------------------------------------------------------------------------
(* Properties of the parsers (SpecParse) *)

Asked(ops) == query # NoQuery /\ query.op \in ops /\ answer # NoOutcome

\* the elements of the array under key k of d; none when d has no array there
Elements(d, k) == IF k \in DOMAIN d /\ d[k].t = "arr" THEN d[k].v ELSE <<>>

RECURSIVE ItemsOfResults(_)
ItemsOfResults(results) ==
    IF results = <<>> THEN <<>>
    ELSE Elements(Head(results), "items") \o ItemsOfResults(Tail(results))

RECURSIVE ItemsOfTasks(_)
ItemsOfTasks(tasks) ==
    IF tasks = <<>> THEN <<>>
    ELSE ItemsOfResults(Elements(Head(tasks), "result")) \o ItemsOfTasks(Tail(tasks))

\* the items of a response in the order tasks, results, items
AllItems(response) == ItemsOfTasks(Elements(response, "tasks"))

\* an organic item whose domain contains the target
Matches(item, target_domain) ==
    /\ "type" \in DOMAIN item /\ item["type"] = S("organic")
    /\ "domain" \in DOMAIN item /\ item["domain"].t = "str"
    /\ IsSubstring(target_domain, item["domain"].v)

MatchingIndexes(response, target_domain) ==
    {j \in 1..Len(AllItems(response)) : Matches(AllItems(response)[j], target_domain)}

FirstMatch(response, target_domain) ==
    AllItems(response)[CHOOSE j \in MatchingIndexes(response, target_domain) :
                          \A k \in MatchingIndexes(response, target_domain) : j <= k]

NotRanking(keyword) ==
    [keyword |-> JStr(keyword), position |-> JNull, url |-> JStr(<<>>),
     title |-> JStr(<<>>), snippet |-> JNull]

\* C7: a rank check returns a record built from the first organic item, in the
\* order tasks, results, items, whose domain contains the target: the record has
\* that item's position and the queried keyword.
C7_FirstOrganicMatch ==
    (Asked({"track_serp"}) /\ MatchingIndexes(query.response, query.target_domain) # {})
    => LET item == FirstMatch(query.response, query.target_domain)
       IN  /\ answer.st = "return"
           /\ answer.val.keyword = JStr(query.keyword)
           /\ answer.val.position = Get(item, "rank_group", JNull)
           /\ answer.val.url = Get(item, "url", JStr(<<>>))
           /\ answer.val.title = Get(item, "title", JStr(<<>>))

\* C8: a rank check on a response with no organic item whose domain contains the
\* target, a response with no tasks, no results or no items included, returns
\* the "not ranking" record, which is neither ranking nor top-10.
C8_NotRankingRecord ==
    (Asked({"track_serp"}) /\ MatchingIndexes(query.response, query.target_domain) = {})
    => /\ answer = Return(NotRanking(query.keyword))
       /\ ~is_ranking(answer.val)
       /\ ~is_top_10(answer.val)

\* the first result object of the first task, or the empty mapping
FirstOfFirstTask(response) ==
    LET tasks == Elements(response, "tasks")
    IN  IF tasks # <<>> /\ Elements(tasks[1], "result") # <<>>
        THEN Elements(tasks[1], "result")[1]
        ELSE EmptyDict

\* the first result object of the first task that has one, or the empty mapping
FirstOfFirstNonEmptyTask(response) ==
    LET tasks == Elements(response, "tasks")
        full == {t \in 1..Len(tasks) : Elements(tasks[t], "result") # <<>>}
    IN  IF full # {}
        THEN Elements(tasks[CHOOSE t \in full : \A x \in full : t <= x], "result")[1]
        ELSE EmptyDict

\* C9 as claimed: account balance returns the first result object of the first
\* task, or an empty mapping if that is absent.
C9_FirstTaskOnly ==
    Asked({"get_account_balance"}) => answer = Return(FirstOfFirstTask(query.response))

\* C9: account balance returns the first result object of the first task that
\* has a non-empty result, or an empty mapping if no task has one; a response
\* whose tasks are empty or missing yields an empty mapping and no error.
C9_FirstNonEmptyTask ==
    Asked({"get_account_balance"}) =>
        /\ answer = Return(FirstOfFirstNonEmptyTask(query.response))
        /\ Elements(query.response, "tasks") = <<>> => answer = Return(EmptyDict)

\* the first task has an empty result and the second task has a result object
C9_Witness ==
    /\ Asked({"get_account_balance"})
    /\ Len(Elements(query.response, "tasks")) = 2
    /\ Elements(Elements(query.response, "tasks")[1], "result") = <<>>
    /\ answer.st = "return"
    /\ answer.val # EmptyDict

ListOps == {"get_keyword_data", "get_keyword_suggestions", "get_llm_mentions",
            "get_backlinks"}

RECURSIVE ResultsOfTasks(_)
ResultsOfTasks(tasks) ==
    IF tasks = <<>> THEN <<>>
    ELSE Elements(Head(tasks), "result") \o ResultsOfTasks(Tail(tasks))

\* every task of the response is hollow: the tasks, or at every task the
\* result, or at every result the items, are missing, null or empty. Keyword
\* lookup has no items level: its records are the result entries.
Hollow(op, response) ==
    IF op = "get_keyword_data"
    THEN ResultsOfTasks(Elements(response, "tasks")) = <<>>
    ELSE AllItems(response) = <<>>

\* C10: a list-returning operation reads a response in which the tasks, the
\* results or the items are absent or empty without raising, and such a level
\* contributes no records: a response all of whose tasks are so gives the
\* empty list.
C10_HollowGivesEmptyList ==
    (Asked(ListOps) /\ Hollow(query.op, query.response)) => answer = Return(<<>>)

KeywordOps == {"get_keyword_data", "get_keyword_suggestions"}

\* the entries of a response a keyword operation makes records of: the result
\* entries for keyword lookup, the items of the results for suggestions
ItemCount(op, response) ==
    IF op = "get_keyword_data"
    THEN Len(ResultsOfTasks(Elements(response, "tasks")))
    ELSE Len(AllItems(response))

\* C11: a keyword lookup or keyword suggestions call that returns gives no more
\* records than the response has items, every record's search volume is >= 0
\* and every record's competition is within [0,1].
C11_KeywordRecordsSound ==
    (Asked(KeywordOps) /\ answer.st = "return") =>
        /\ Len(answer.val) <= ItemCount(query.op, query.response)
        /\ \A j \in 1..Len(answer.val) :
              /\ answer.val[j].search_volume.v >= 0
              /\ Tenths(answer.val[j].competition) >= 0
              /\ Tenths(answer.val[j].competition) <= 10

-----------------------------------------------------------------------------
(* Properties of the retry policy and the slots (Spec) *)

BalanceUnits == {u \in AllUnits : call[u[1]].op = "get_account_balance"}

C12_SingleAttempt ==
    \A u \in BalanceUnits :
        /\ req[u[1]][u[2]].pc # "backoff"
        /\ req[u[1]][u[2]].attempt_number <= 1

C12_Step ==
    \A u \in AllUnits :
        LET c == u[1]
            i == u[2]
            a == req[c][i]
            b == req'[c][i]
            failed == b.pc = "backoff"
                      \/ (b.pc = "done" /\ b.outcome \notin SuccessOutcomes(c, i))
        IN  (a.pc = "inflight" /\ a.attempt_number = 1 /\ a # b /\ failed) =>
              IF call[c].op = "get_account_balance"
              THEN /\ b.pc = "done"
                   /\ call'[c].pc = "done"
                   /\ call'[c].outcome \in
                        {Raise(HTTPError(kind, 1)) : kind \in ErrorKinds}
              ELSE b.pc = "backoff"

\* C12: the account balance operation makes exactly one HTTP attempt, and a
\* failure of that attempt is raised to the caller at once, with no wait and no
\* second attempt; a failed first attempt of any other operation is followed by
\* the wait before its retry.
C12_RetryOnlyOnPost == []C12_SingleAttempt /\ [][C12_Step]_vars

\* an account balance call ended with the error of its only attempt while a
\* POST of another call waits for its retry
C12_Witness ==
    \E c, d \in Calls :
        /\ call[c].op = "get_account_balance"
        /\ call[c].pc = "done"
        /\ call[c].outcome = Raise(HTTPError("HTTPStatusError5xx", 1))
        /\ UsesPost(call[d].op)
        /\ \E i \in Units : req[d][i].pc = "backoff"

InBackoff == {u \in AllUnits : req[u[1]][u[2]].pc = "backoff"}

\* the slots taken are those of the attempts in progress: a unit waiting in
\* backoff holds none, so with no attempt in progress every slot is free
C13_NoSlotInBackoff ==
    /\ max_concurrent - semaphore = Cardinality(InFlight)
    /\ (InBackoff # {} /\ InFlight = {}) => semaphore = max_concurrent

\* a unit leaving backoff has to acquire a slot again, and none is taken for it
\* before: the end of the wait changes no slot, the acquire takes one
C13_Step ==
    \A u \in AllUnits :
        LET a == req[u[1]][u[2]]
            b == req'[u[1]][u[2]]
        IN  /\ (a.pc = "backoff" /\ a # b) => (b.pc = "acquire" /\ semaphore' = semaphore)
            /\ (a.pc = "acquire" /\ a # b) =>
                  (b.pc = "inflight" /\ semaphore > 0 /\ semaphore' = semaphore - 1)

RunningBatch(c) == call[c].op = "batch_track_serp" /\ call[c].pc = "running"

C13_BatchCompletes ==
    \A c \in Calls : RunningBatch(c) ~> (call[c].pc = "done")

\* C13: a retrying POST holds a slot only while one of its HTTP attempts is in
\* progress: none while it waits in backoff, and it acquires one anew for each
\* attempt; so other operations get the slot during the wait, and a batch rank
\* check completes provided every HTTP attempt and every wait comes to an end.
C13_NoSlotWhileWaiting ==
    /\ []C13_NoSlotInBackoff
    /\ [][C13_Step]_vars
    /\ C13_BatchCompletes

\* with a single slot, a unit of a batch waits in backoff while the attempt of
\* another call is in progress
C13_Witness ==
    /\ max_concurrent = 1
    /\ \E u \in InBackoff, w \in InFlight :
          /\ u[1] # w[1]
          /\ call[u[1]].op = "batch_track_serp"
          /\ Len(call[u[1]].keywords) = MaxKw

====
